---- MODULE Spec2Model ----
(***************************************************************************)
(* Conditional rendering sample                                            *)
(* (application_sandbox/conditional_rendering/main.cpp).                   *)
(*                                                                         *)
(* The CPU side is the sample's InitializeFrameData / Update / Render; the *)
(* GPU side is a single in-order queue that executes the staged buffer     *)
(* copies and the recorded command buffers one command at a time.          *)
(***************************************************************************)
EXTENDS Integers, Sequences, FiniteSets, TLC

(* ------------------------------ bounds --------------------------------- *)
NumSwapchainImages == 2
MaxFrames == 62
MaxShaderValue == 1
TransformMod == 2
MaxTimeStep == 1
MaxWrapLead == 2

(* ------------------------- program constants --------------------------- *)
kMaxOffsetAlignment == 256
VK_CONDITIONAL_RENDERING_INVERTED_BIT_EXT == 1
ConditionPeriod == 120
ConditionOnFrames == 60
WordBase == 65536

FrameIndices == 0 .. (NumSwapchainImages - 1)
Buffers == {"camera", "model", "conditional", "dispatch"}
ShaderValues == 1 .. MaxShaderValue
TimeSteps == 1 .. MaxTimeStep
NoSlot == 0 - 1
NoFrame == [hi |-> 0 - 1, lo |-> 0 - 1]
Undefined == 0 - 1

VARIABLES
  pc,                        \* position of the CPU: "init", "update", "render"
  next_init,                 \* next frame slot InitializeFrameData is called for
  frames_since_last_notify_, \* uint32_t counter of Update calls
  data,                      \* host values: camera_data_->data() ... dispatch_data_->data()
  uninitialized,             \* per buffer, per slot: never uploaded yet
  staging,                   \* host-visible copy of each buffer, by offset
  device,                    \* device-local buffer contents, by offset
  command_buffer_,           \* per slot: the recorded command sequence
  record_count,              \* per slot: number of vkBeginCommandBuffer calls
  cube_descriptor_set_,      \* per slot: bindings 0..2 of the graphics set
  compute_descriptor_set_,   \* per slot: binding 0 of the compute set
  dispatch_data_buffer_view_,\* per slot: the texel buffer view
  queue,                     \* work submitted to the render queue, in order
  gpu,                       \* execution state of the command buffer at the head
  completed,                 \* what the last finished command buffer did
  update_calls               \* number of Update calls so far, not truncated

vars == <<pc, next_init, frames_since_last_notify_, data, uninitialized,
          staging, device, command_buffer_, record_count,
          cube_descriptor_set_, compute_descriptor_set_,
          dispatch_data_buffer_view_, queue, gpu, completed, update_calls>>

(* --------------------- BufferFrameData<T> helpers ---------------------- *)
RoundUp(n, a) == ((n + a - 1) \div a) * a

SizeOf(b) ==
  CASE b = "camera" -> 64
    [] b = "model" -> 64
    [] b = "dispatch" -> 4
    [] b = "conditional" -> 4

size(b) == SizeOf(b)

aligned_data_size(b) == RoundUp(SizeOf(b), kMaxOffsetAlignment)

get_offset_for_frame(b, frame_index) == aligned_data_size(b) * frame_index

Offsets(b) == {get_offset_for_frame(b, i) : i \in FrameIndices}

UInt32Of(hi, lo) == [hi |-> hi, lo |-> lo]

Mem(v, by) == [val |-> v, by |-> by]

(* Byte ranges [offset, offset + range) of a buffer. *)
Region(b, off, range) == [buffer |-> b, offset |-> off, range |-> range]

NoRegion == Region("", 0, 0)

Bytes(r) == [buffer |-> r.buffer, lo |-> r.offset, hi |-> r.offset + r.range]

RegionWithin(inner, outer) ==
  /\ inner.buffer = outer.buffer
  /\ outer.offset <= inner.offset
  /\ inner.offset + inner.range <= outer.offset + outer.range

(* The per-slot region of buffer b that BufferFrameData reserves for slot i. *)
SlotRegion(b, i) == Region(b, get_offset_for_frame(b, i), aligned_data_size(b))

(* The slot offset a region starts in. *)
BaseOffset(r) == (r.offset \div aligned_data_size(r.buffer)) * aligned_data_size(r.buffer)

(* ------------------ structures built by InitializeFrameData ------------ *)
dispatch_data_buffer_view_of_frame0(frame_index) ==
  Region("dispatch", get_offset_for_frame("dispatch", 0), aligned_data_size("dispatch"))

dispatch_data_buffer_view_create_info(frame_index) ==
  Region("dispatch", get_offset_for_frame("dispatch", frame_index),
         aligned_data_size("dispatch"))

(* Variants of the code used to show that the theorems depend on it. *)
buffer_infos_compute_on_condition(frame_index) ==
  << Region("camera", get_offset_for_frame("camera", frame_index), size("camera")),
     Region("model", get_offset_for_frame("model", frame_index), size("model")),
     Region("conditional", get_offset_for_frame("conditional", frame_index),
            size("conditional")) >>

buffer_infos_model_of_frame0(frame_index) ==
  << Region("camera", get_offset_for_frame("camera", frame_index), size("camera")),
     Region("model", get_offset_for_frame("model", 0), size("model")),
     Region("dispatch", get_offset_for_frame("dispatch", frame_index), size("dispatch")) >>

buffer_infos(frame_index) ==
  << Region("camera", get_offset_for_frame("camera", frame_index), size("camera")),
     Region("model", get_offset_for_frame("model", frame_index), size("model")),
     Region("dispatch", get_offset_for_frame("dispatch", frame_index), size("dispatch")) >>

conditional_begin1(frame_index) ==
  [buffer |-> "conditional",
   offset |-> get_offset_for_frame("conditional", frame_index),
   flags |-> 0]

conditional_begin2_not_inverted(frame_index) == conditional_begin1(frame_index)

conditional_begin2(frame_index) ==
  [conditional_begin1(frame_index) EXCEPT !.flags = VK_CONDITIONAL_RENDERING_INVERTED_BIT_EXT]

to_use_in_comp(frame_index) ==
  [srcAccess |-> {"HOST_WRITE"},
   dstAccess |-> {"SHADER_READ", "SHADER_WRITE"},
   region |-> Region("dispatch", get_offset_for_frame("dispatch", frame_index),
                     aligned_data_size("dispatch"))]

to_use_in_frag_of_frame0(frame_index) ==
  [srcAccess |-> {"SHADER_READ", "SHADER_WRITE"},
   dstAccess |-> {"SHADER_READ"},
   region |-> Region("dispatch", get_offset_for_frame("dispatch", 0),
                     aligned_data_size("dispatch"))]

to_use_in_frag(frame_index) ==
  [srcAccess |-> {"SHADER_READ", "SHADER_WRITE"},
   dstAccess |-> {"SHADER_READ"},
   region |-> Region("dispatch", get_offset_for_frame("dispatch", frame_index),
                     aligned_data_size("dispatch"))]

clear_color == <<0, 1, 1, 1>>
clear_color2 == <<1, 0, 1, 1>>
NoColor == <<0, 0, 0, 0>>

(* One recorded command.  Every command carries the same fields. *)
Cmd(op) ==
  [op |-> op, srcStage |-> "", dstStage |-> "", region |-> NoRegion,
   flags |-> 0, bind |-> "", set |-> NoSlot, n |-> 0, color |-> NoColor]

PipelineBarrier(src, dst, barrier) ==
  [Cmd("PipelineBarrier") EXCEPT !.srcStage = src, !.dstStage = dst,
                                 !.region = barrier.region]

BeginConditionalRendering(info) ==
  [Cmd("BeginConditionalRendering") EXCEPT
     !.region = Region(info.buffer, info.offset, 4), !.flags = info.flags]

BindPipeline(point) == [Cmd("BindPipeline") EXCEPT !.bind = point]

BindDescriptorSets(point, frame_index) ==
  [Cmd("BindDescriptorSets") EXCEPT !.bind = point, !.set = frame_index]

ClearAttachments(color) == [Cmd("ClearAttachments") EXCEPT !.color = color]

DrawInstanced(instances) == [Cmd("Draw") EXCEPT !.n = instances]

Draw == DrawInstanced(1)

RecordedCommands_dispatch_unconditional(frame_index) ==
  << Cmd("BeginCommandBuffer"),
     PipelineBarrier("HOST", "COMPUTE_SHADER", to_use_in_comp(frame_index)),
     BeginConditionalRendering(conditional_begin1(frame_index)),
     BindPipeline("COMPUTE"),
     BindDescriptorSets("COMPUTE", frame_index),
     Cmd("EndConditionalRendering"),
     Cmd("Dispatch"),
     PipelineBarrier("COMPUTE_SHADER", "FRAGMENT_SHADER", to_use_in_frag(frame_index)),
     Cmd("BeginRenderPass"),
     BindPipeline("GRAPHICS"),
     BindDescriptorSets("GRAPHICS", frame_index),
     BeginConditionalRendering(conditional_begin1(frame_index)),
     ClearAttachments(clear_color),
     DrawInstanced(2),
     Cmd("EndConditionalRendering"),
     BeginConditionalRendering(conditional_begin2(frame_index)),
     ClearAttachments(clear_color2),
     Draw,
     Cmd("EndConditionalRendering"),
     Cmd("EndRenderPass"),
     Cmd("EndCommandBuffer") >>

RecordedCommands_block_left_open(frame_index) ==
  << Cmd("BeginCommandBuffer"),
     PipelineBarrier("HOST", "COMPUTE_SHADER", to_use_in_comp(frame_index)),
     BeginConditionalRendering(conditional_begin1(frame_index)),
     BindPipeline("COMPUTE"),
     BindDescriptorSets("COMPUTE", frame_index),
     Cmd("Dispatch"),
     Cmd("EndConditionalRendering"),
     PipelineBarrier("COMPUTE_SHADER", "FRAGMENT_SHADER", to_use_in_frag(frame_index)),
     Cmd("BeginRenderPass"),
     BindPipeline("GRAPHICS"),
     BindDescriptorSets("GRAPHICS", frame_index),
     BeginConditionalRendering(conditional_begin1(frame_index)),
     ClearAttachments(clear_color),
     DrawInstanced(2),
     Cmd("EndConditionalRendering"),
     BeginConditionalRendering(conditional_begin2(frame_index)),
     ClearAttachments(clear_color2),
     Draw,
     Cmd("EndRenderPass"),
     Cmd("EndConditionalRendering"),
     Cmd("EndCommandBuffer") >>

(* The commands recorded between vkBeginCommandBuffer and vkEndCommandBuffer. *)
RecordedCommands(frame_index) ==
  << Cmd("BeginCommandBuffer"),
     PipelineBarrier("HOST", "COMPUTE_SHADER", to_use_in_comp(frame_index)),
     BeginConditionalRendering(conditional_begin1(frame_index)),
     BindPipeline("COMPUTE"),
     BindDescriptorSets("COMPUTE", frame_index),
     Cmd("Dispatch"),
     Cmd("EndConditionalRendering"),
     PipelineBarrier("COMPUTE_SHADER", "FRAGMENT_SHADER", to_use_in_frag(frame_index)),
     Cmd("BeginRenderPass"),
     BindPipeline("GRAPHICS"),
     BindDescriptorSets("GRAPHICS", frame_index),
     BeginConditionalRendering(conditional_begin1(frame_index)),
     ClearAttachments(clear_color),
     DrawInstanced(2),
     Cmd("EndConditionalRendering"),
     BeginConditionalRendering(conditional_begin2(frame_index)),
     ClearAttachments(clear_color2),
     Draw,
     Cmd("EndConditionalRendering"),
     Cmd("EndRenderPass"),
     Cmd("EndCommandBuffer") >>

(* ------------------------------- Init ---------------------------------- *)
(* State after InitializeApplicationData: host values set, nothing uploaded *)
(* and no frame data created yet.                                           *)
InitialData ==
  [camera |-> 1, model |-> 0, conditional |-> 1, dispatch |-> 0]

IdleGpu ==
  [ip |-> 0, predicate |-> "none", in_pass |-> FALSE, flag |-> Mem(Undefined, "none"),
   compute_set |-> NoSlot, graphics_set |-> NoSlot, log |-> << >>]

(* The count of Update calls: three 16-bit words, wide enough not to wrap  *)
(* where the uint32_t counter does, and the calls made in this run.         *)
CallCount(top, hi, lo, run) == [top |-> top, hi |-> hi, lo |-> lo, run |-> run]

NoResult == [slot |-> NoSlot, frame |-> NoFrame, host |-> InitialData, log |-> << >>]

Init ==
  /\ pc = "init"
  /\ next_init = 0
  /\ frames_since_last_notify_ = UInt32Of(0, 0)
  /\ data = InitialData
  /\ uninitialized = [b \in Buffers |-> [i \in FrameIndices |-> TRUE]]
  /\ staging = [b \in Buffers |-> [o \in Offsets(b) |-> Mem(Undefined, "none")]]
  /\ device = [b \in Buffers |-> [o \in Offsets(b) |-> Mem(Undefined, "none")]]
  /\ command_buffer_ = [i \in FrameIndices |-> << >>]
  /\ record_count = [i \in FrameIndices |-> 0]
  /\ cube_descriptor_set_ = [i \in FrameIndices |-> <<NoRegion, NoRegion, NoRegion>>]
  /\ compute_descriptor_set_ = [i \in FrameIndices |-> <<NoRegion>>]
  /\ dispatch_data_buffer_view_ = [i \in FrameIndices |-> NoRegion]
  /\ queue = << >>
  /\ gpu = IdleGpu
  /\ completed = NoResult
  /\ update_calls = CallCount(0, 0, 0, 0)

(* ------------------------ InitializeFrameData -------------------------- *)
InitializeFrameData(frame_index) ==
  /\ pc = "init"
  /\ frame_index = next_init
  /\ dispatch_data_buffer_view_' =
       [dispatch_data_buffer_view_ EXCEPT
          ![frame_index] = dispatch_data_buffer_view_create_info(frame_index)]
  /\ cube_descriptor_set_' =
       [cube_descriptor_set_ EXCEPT
          ![frame_index] = << buffer_infos(frame_index)[1],
                              buffer_infos(frame_index)[2],
                              dispatch_data_buffer_view_create_info(frame_index) >>]
  /\ compute_descriptor_set_' =
       [compute_descriptor_set_ EXCEPT ![frame_index] = << buffer_infos(frame_index)[3] >>]
  /\ command_buffer_' = [command_buffer_ EXCEPT ![frame_index] = RecordedCommands(frame_index)]
  /\ record_count' = [record_count EXCEPT ![frame_index] = @ + 1]
  /\ next_init' = next_init + 1
  /\ pc' = IF next_init + 1 = NumSwapchainImages THEN "update" ELSE "init"
  /\ UNCHANGED <<frames_since_last_notify_, data, uninitialized, staging, device,
                 queue, gpu, completed, update_calls>>

(* ------------------------------- Update -------------------------------- *)
(* time_since_last_render is abstracted to the rotation step it produces:  *)
(* a number of steps of a rotation of period TransformMod.                  *)
(* uint32_t arithmetic on a counter kept as two 16-bit words. *)
Increment(c) ==
  IF c.lo = WordBase - 1
  THEN [hi |-> (c.hi + 1) % WordBase, lo |-> 0]
  ELSE [hi |-> c.hi, lo |-> c.lo + 1]

Modulo(c, m) == ((c.hi % m) * (WordBase % m) + c.lo) % m

NextCall(k) ==
  IF k.lo < WordBase - 1 THEN [k EXCEPT !.lo = @ + 1, !.run = @ + 1]
  ELSE IF k.hi < WordBase - 1 THEN [k EXCEPT !.hi = @ + 1, !.lo = 0, !.run = @ + 1]
  ELSE [k EXCEPT !.top = @ + 1, !.hi = 0, !.lo = 0, !.run = @ + 1]

Condition_on_61_frames(frames) ==
  IF Modulo(frames, ConditionPeriod) <= ConditionOnFrames THEN 1 ELSE 0

Condition(frames) == IF Modulo(frames, ConditionPeriod) < ConditionOnFrames THEN 1 ELSE 0

Update(time_since_last_render) ==
  /\ pc = "update"
  /\ update_calls.run < MaxFrames
  /\ update_calls' = NextCall(update_calls)
  /\ frames_since_last_notify_' = Increment(frames_since_last_notify_)
  /\ data' = [data EXCEPT
                !.model = (@ + time_since_last_render) % TransformMod,
                !.conditional = Condition(Increment(frames_since_last_notify_)),
                !.dispatch = 0]
  /\ pc' = "render"
  /\ UNCHANGED <<next_init, uninitialized, staging, device, command_buffer_,
                 record_count, cube_descriptor_set_, compute_descriptor_set_,
                 dispatch_data_buffer_view_, queue, gpu, completed>>

(* ------------------------------- Render -------------------------------- *)
Item(kind) ==
  [kind |-> kind, buffer |-> "", slot |-> NoSlot, frame |-> NoFrame,
   host |-> InitialData, commandBufferCount |-> 0, waitSemaphoreCount |-> 0,
   signalSemaphoreCount |-> 0, fence |-> "VK_NULL_HANDLE"]

(* BufferFrameData<T>::UpdateBuffer(queue, buffer_index, 0, force): copies *)
(* the host value into the slot of the host-visible buffer and submits the *)
(* copy into the device buffer, unless the value is already there.         *)
UpdateFires(st, b, buffer_index, force) ==
  \/ st.uninitialized[b][buffer_index]
  \/ force
  \/ st.staging[b][get_offset_for_frame(b, buffer_index)].val # data[b]

UpdateBuffer(st, b, buffer_index, force) ==
  IF UpdateFires(st, b, buffer_index, force)
  THEN [staging |-> [st.staging EXCEPT ![b][get_offset_for_frame(b, buffer_index)] =
                       Mem(data[b], "host")],
        uninitialized |-> [st.uninitialized EXCEPT ![b][buffer_index] = FALSE],
        queue |-> Append(st.queue,
                         [Item("copy") EXCEPT !.buffer = b, !.slot = buffer_index,
                                              !.frame = frames_since_last_notify_])]
  ELSE st

init_submit_info(frame_index) ==
  [Item("cmds") EXCEPT !.slot = frame_index, !.frame = frames_since_last_notify_,
                       !.host = data, !.commandBufferCount = 1]

QueueSubmit(st, info) == [st EXCEPT !.queue = Append(@, info)]

forceUpdate_off == FALSE

forceUpdate == TRUE

RenderEffect_submit_first(st, frame_index) ==
  LET s0 == QueueSubmit(st, init_submit_info(frame_index))
      s1 == UpdateBuffer(s0, "camera", frame_index, FALSE)
      s2 == UpdateBuffer(s1, "model", frame_index, FALSE)
      s3 == UpdateBuffer(s2, "conditional", frame_index, FALSE)
  IN  UpdateBuffer(s3, "dispatch", frame_index, forceUpdate)

RenderEffect_submit_twice(st, frame_index) ==
  LET s1 == UpdateBuffer(st, "camera", frame_index, FALSE)
      s2 == UpdateBuffer(s1, "model", frame_index, FALSE)
      s3 == UpdateBuffer(s2, "conditional", frame_index, FALSE)
      s4 == UpdateBuffer(s3, "dispatch", frame_index, forceUpdate)
  IN  QueueSubmit(QueueSubmit(s4, init_submit_info(frame_index)),
                  init_submit_info(frame_index))

RenderEffect(st, frame_index) ==
  LET s1 == UpdateBuffer(st, "camera", frame_index, FALSE)
      s2 == UpdateBuffer(s1, "model", frame_index, FALSE)
      s3 == UpdateBuffer(s2, "conditional", frame_index, FALSE)
      s4 == UpdateBuffer(s3, "dispatch", frame_index, forceUpdate)
  IN  QueueSubmit(s4, init_submit_info(frame_index))

(* The framework renders into a slot only after the slot's previous frame  *)
(* has left the queue.                                                      *)
InFlight(frame_index) == \E k \in 1 .. Len(queue) : queue[k].slot = frame_index

Render(frame_index) ==
  /\ pc = "render"
  /\ ~InFlight(frame_index)
  /\ LET st == RenderEffect([staging |-> staging, uninitialized |-> uninitialized,
                             queue |-> queue], frame_index)
     IN  /\ staging' = st.staging
         /\ uninitialized' = st.uninitialized
         /\ queue' = st.queue
  /\ pc' = "update"
  /\ UNCHANGED <<next_init, frames_since_last_notify_, data, device, command_buffer_,
                 record_count, cube_descriptor_set_, compute_descriptor_set_,
                 dispatch_data_buffer_view_, gpu, completed, update_calls>>

(* --------------------------------- GPU --------------------------------- *)
Front == queue[1]

ReadMem(r) == device[r.buffer][BaseOffset(r)]

GpuCopy ==
  /\ queue # << >>
  /\ Front.kind = "copy"
  /\ device' = [device EXCEPT
                  ![Front.buffer][get_offset_for_frame(Front.buffer, Front.slot)] =
                    staging[Front.buffer][get_offset_for_frame(Front.buffer, Front.slot)]]
  /\ queue' = Tail(queue)
  /\ UNCHANGED <<pc, next_init, frames_since_last_notify_, data, uninitialized, staging,
                 command_buffer_, record_count, cube_descriptor_set_,
                 compute_descriptor_set_, dispatch_data_buffer_view_, gpu, completed,
                 update_calls>>

(* Bookkeeping of who wrote a value: "dispatch" is a write by the dispatch  *)
(* of the command buffer that is executing; once that command buffer ends  *)
(* the value counts as written by an earlier frame.                         *)
Retire(mem) ==
  [b \in Buffers |-> [o \in Offsets(b) |->
     IF mem[b][o].by = "dispatch" THEN Mem(mem[b][o].val, "earlier") ELSE mem[b][o]]]

CurrentCmd == command_buffer_[Front.slot][gpu.ip + 1]

(* Commands that VK_EXT_conditional_rendering discards when the predicate  *)
(* fails: draws, dispatches and vkCmdClearAttachments.                      *)
Discardable(op) == op \in {"Dispatch", "Draw", "ClearAttachments"}

Executes(c) == ~(Discardable(c.op) /\ gpu.predicate = "skip")

PredicateOf(flag, flags) ==
  IF (flag.val # 0) = (flags # VK_CONDITIONAL_RENDERING_INVERTED_BIT_EXT)
  THEN "pass" ELSE "skip"

LogEntry(c, executed, read) ==
  [ip |-> gpu.ip + 1, op |-> c.op, executed |-> executed, n |-> c.n, color |-> c.color,
   region |-> c.region, flags |-> c.flags, read |-> read,
   camera |-> Undefined, model |-> Undefined,
   in_pass |-> gpu.in_pass, in_cond |-> gpu.predicate # "none"]

NoMem == Mem(Undefined, "none")

GpuStep(c, log) ==
  IF c.op = "EndCommandBuffer"
  THEN /\ completed' = [slot |-> Front.slot, frame |-> Front.frame,
                          host |-> Front.host, log |-> log]
       /\ queue' = Tail(queue)
       /\ gpu' = IdleGpu
  ELSE /\ gpu' = [gpu EXCEPT
                    !.ip = @ + 1,
                    !.log = log,
                    !.predicate =
                      IF c.op = "BeginConditionalRendering"
                      THEN PredicateOf(ReadMem(c.region), c.flags)
                      ELSE IF c.op = "EndConditionalRendering" THEN "none" ELSE @,
                    !.flag = IF c.op = "BeginConditionalRendering"
                             THEN ReadMem(c.region) ELSE @,
                    !.in_pass = IF c.op = "BeginRenderPass" THEN TRUE
                                ELSE IF c.op = "EndRenderPass" THEN FALSE ELSE @,
                    !.compute_set = IF c.op = "BindDescriptorSets" /\ c.bind = "COMPUTE"
                                    THEN c.set ELSE @,
                    !.graphics_set = IF c.op = "BindDescriptorSets" /\ c.bind = "GRAPHICS"
                                     THEN c.set ELSE @]
       /\ UNCHANGED <<queue, completed>>

GpuExecute ==
  /\ queue # << >>
  /\ Front.kind = "cmds"
  /\ LET c == CurrentCmd IN
       CASE c.op = "Dispatch" /\ Executes(c) ->
              \E v \in ShaderValues :
                LET target == compute_descriptor_set_[gpu.compute_set][1] IN
                  /\ device' = [device EXCEPT ![target.buffer][BaseOffset(target)] =
                                  Mem(v, "dispatch")]
                  /\ GpuStep(c, Append(gpu.log,
                               LogEntry(c, TRUE, Mem(v, "dispatch"))))
         [] c.op = "Draw" /\ Executes(c) ->
              LET set == cube_descriptor_set_[gpu.graphics_set] IN
                /\ device' = device
                /\ GpuStep(c, Append(gpu.log,
                             [LogEntry(c, TRUE, ReadMem(set[3])) EXCEPT
                                !.camera = ReadMem(set[1]).val,
                                !.model = ReadMem(set[2]).val]))
         [] c.op = "BeginConditionalRendering" ->
              /\ device' = device
              /\ GpuStep(c, Append(gpu.log, LogEntry(c, TRUE, ReadMem(c.region))))
         [] c.op = "BeginCommandBuffer" ->
              /\ device' = device
              /\ GpuStep(c, Append(gpu.log,
                           LogEntry(c, TRUE, ReadMem(SlotRegion("dispatch", Front.slot)))))
         [] c.op = "EndCommandBuffer" ->
              /\ device' = Retire(device)
              /\ GpuStep(c, Append(gpu.log, LogEntry(c, TRUE, NoMem)))
         [] OTHER ->
              /\ device' = device
              /\ GpuStep(c, Append(gpu.log, LogEntry(c, Executes(c), NoMem)))
  /\ UNCHANGED <<pc, next_init, frames_since_last_notify_, data, uninitialized, staging,
                 command_buffer_, record_count, cube_descriptor_set_,
                 compute_descriptor_set_, dispatch_data_buffer_view_, update_calls>>

(* ------------------------------ behaviour ------------------------------ *)
Next ==
  \/ \E i \in FrameIndices : InitializeFrameData(i)
  \/ \E dt \in TimeSteps : Update(dt)
  \/ \E i \in FrameIndices : Render(i)
  \/ GpuCopy
  \/ GpuExecute

Spec == Init /\ [][Next]_vars

(* ----------------------- runs that reach the wrap ---------------------- *)
(* The sample after `start` frames, start = 2^32 - lead, all of them drawn *)
(* into slot 0 with a time step of 1 and finished on the GPU: the counter  *)
(* and the host values are those of frame `start`, slot 0 holds what that  *)
(* frame uploaded and what its dispatch left, the other slots were never   *)
(* uploaded, the queue is empty.  Finished command buffers are observed    *)
(* from here on.                                                            *)
DataAfter(frames) ==
  [camera |-> InitialData.camera,
   model |-> Modulo(frames, TransformMod),
   conditional |-> Condition(frames),
   dispatch |-> 0]

Resumed(lead, v) ==
  LET frames == UInt32Of(WordBase - 1, WordBase - lead)
      host == DataAfter(frames)
      Uploaded(b, o) ==
        IF o # get_offset_for_frame(b, 0) THEN Mem(Undefined, "none")
        ELSE Mem(host[b], "host")
  IN
  /\ pc = "update"
  /\ next_init = NumSwapchainImages
  /\ frames_since_last_notify_ = frames
  /\ update_calls = CallCount(0, frames.hi, frames.lo, 0)
  /\ data = host
  /\ uninitialized = [b \in Buffers |-> [i \in FrameIndices |-> i # 0]]
  /\ staging = [b \in Buffers |-> [o \in Offsets(b) |-> Uploaded(b, o)]]
  /\ device = [b \in Buffers |-> [o \in Offsets(b) |->
                 IF b = "dispatch" /\ o = get_offset_for_frame(b, 0)
                      /\ host.conditional # 0
                 THEN Mem(v, "earlier") ELSE Uploaded(b, o)]]
  /\ command_buffer_ = [i \in FrameIndices |-> RecordedCommands(i)]
  /\ record_count = [i \in FrameIndices |-> 1]
  /\ cube_descriptor_set_ =
       [i \in FrameIndices |-> << buffer_infos(i)[1], buffer_infos(i)[2],
                                  dispatch_data_buffer_view_create_info(i) >>]
  /\ compute_descriptor_set_ = [i \in FrameIndices |-> << buffer_infos(i)[3] >>]
  /\ dispatch_data_buffer_view_ =
       [i \in FrameIndices |-> dispatch_data_buffer_view_create_info(i)]
  /\ queue = << >>
  /\ gpu = IdleGpu
  /\ completed = NoResult

InitNearWrap ==
  \/ Init
  \/ \E lead \in 1 .. MaxWrapLead : \E v \in ShaderValues : Resumed(lead, v)

SpecNearWrap == InitNearWrap /\ [][Next]_vars

(* ============================ properties =============================== *)
Executing == queue # << >> /\ Front.kind = "cmds"

FlagReads(log) == {k \in 1 .. Len(log) : log[k].op = "BeginConditionalRendering"}

Ran(log, op) == \E k \in 1 .. Len(log) : log[k].op = op /\ log[k].executed

(* C1 as stated: every conditional-rendering block of a frame reads a flag *)
(* that the compute dispatch of that frame wrote on the GPU, and no CPU    *)
(* write determines it.                                                     *)
C1_Original ==
  Executing => \A k \in FlagReads(gpu.log) : gpu.log[k].read.by = "dispatch"

(* C1 amended: every conditional-rendering block of a frame reads the flag *)
(* that the host computed in Update and uploaded in this frame's Render;   *)
(* the compute dispatch never writes the condition region.                  *)
C1_Amended ==
  /\ \A o \in Offsets("conditional") : device["conditional"][o].by \in {"none", "host"}
  /\ Executing =>
       \A k \in FlagReads(gpu.log) :
         gpu.log[k].read = Mem(Front.host.conditional, "host")

C1_Witness ==
  /\ Executing
  /\ Cardinality(FlagReads(gpu.log)) = 3
  /\ Ran(gpu.log, "Dispatch")

(* What ran inside the render pass: the clears and draws that were not     *)
(* discarded, in order.                                                     *)
Work(op, n, color) == [op |-> op, n |-> n, color |-> color]

PassWork(log) ==
  LET kept == SelectSeq(log, LAMBDA e : e.in_pass /\ e.executed
                                         /\ e.op \in {"ClearAttachments", "Draw"})
  IN  [k \in 1 .. Len(kept) |-> Work(kept[k].op, kept[k].n, kept[k].color)]

PassFlags(log) == {log[k].read.val : k \in {j \in FlagReads(log) : log[j].in_pass}}

(* C2: when a command buffer has run, exactly one of the two branches in   *)
(* the render pass has executed: flag non-zero, the clear to (0,1,1,1) and *)
(* the draw of 2 instances; flag zero, the clear to (1,0,1,1) and the draw *)
(* of 1 cube.                                                               *)
C2_Theorem ==
  completed.slot # NoSlot =>
    \E f \in PassFlags(completed.log) :
      /\ PassFlags(completed.log) = {f}
      /\ PassWork(completed.log) =
           IF f # 0
           THEN << Work("ClearAttachments", 0, <<0, 1, 1, 1>>), Work("Draw", 2, <<0, 0, 0, 0>>) >>
           ELSE << Work("ClearAttachments", 0, <<1, 0, 1, 1>>), Work("Draw", 1, <<0, 0, 0, 0>>) >>

C2_Witness ==
  /\ completed.slot = NumSwapchainImages - 1
  /\ PassFlags(completed.log) = {0}
  /\ Len(PassWork(completed.log)) = 2

Recorded(i) == command_buffer_[i] # << >>

(* C3: after InitializeFrameData no step records or resets a command       *)
(* buffer, no slot is recorded more than once, and every Render submits    *)
(* exactly one command buffer, the one of its slot, with no fence and no   *)
(* semaphore, next to the buffer updates of that same slot.                 *)
C3_Theorem ==
  [][ /\ (pc # "init" => command_buffer_' = command_buffer_ /\ record_count' = record_count)
      /\ \A i \in FrameIndices : record_count'[i] <= 1
      /\ (pc = "render" /\ pc' = "update" =>
            LET added == SubSeq(queue', Len(queue) + 1, Len(queue'))
                cmds == SelectSeq(added, LAMBDA it : it.kind = "cmds")
            IN  /\ Len(cmds) = 1
                /\ cmds[1].commandBufferCount = 1
                /\ cmds[1].fence = "VK_NULL_HANDLE"
                /\ cmds[1].waitSemaphoreCount = 0
                /\ cmds[1].signalSemaphoreCount = 0
                /\ record_count[cmds[1].slot] = 1
                /\ \A k \in 1 .. Len(added) : added[k].slot = cmds[1].slot) ]_vars

C3_Witness ==
  /\ Executing
  /\ gpu.ip > 0
  /\ completed.slot = Front.slot
  /\ completed.frame # Front.frame
  /\ record_count[Front.slot] = 1

Idx(cb, op) == {k \in 1 .. Len(cb) : cb[k].op = op}

FragBarriers(cb) ==
  {k \in Idx(cb, "PipelineBarrier") :
     cb[k].srcStage = "COMPUTE_SHADER" /\ cb[k].dstStage = "FRAGMENT_SHADER"}

DispatchBeforeBarrierBeforePass(cb) ==
  /\ Idx(cb, "Dispatch") # {}
  /\ FragBarriers(cb) # {}
  /\ \A b \in FragBarriers(cb) :
       /\ \A d \in Idx(cb, "Dispatch") : d < b
       /\ \A r \in Idx(cb, "BeginRenderPass") \cup Idx(cb, "Draw")
                     \cup Idx(cb, "ClearAttachments") : b < r

(* C4 as stated: dispatch, then the compute-to-fragment barrier, then the  *)
(* render pass with every draw and clear; and the barrier covers exactly   *)
(* the region that the storage-buffer descriptor of the dispatch and the   *)
(* texel buffer view of the fragment shader cover.                          *)
C4_Original ==
  \A i \in FrameIndices :
    Recorded(i) =>
      /\ DispatchBeforeBarrierBeforePass(command_buffer_[i])
      /\ \A b \in FragBarriers(command_buffer_[i]) :
           /\ command_buffer_[i][b].region = SlotRegion("dispatch", i)
           /\ Bytes(command_buffer_[i][b].region) = Bytes(compute_descriptor_set_[i][1])
           /\ Bytes(command_buffer_[i][b].region) = Bytes(cube_descriptor_set_[i][3])

(* C4 amended: the same order; the barrier covers the slot's region of the *)
(* scratch buffer with the aligned data size, which is exactly the region  *)
(* of the texel buffer view, and which contains the region of the storage- *)
(* buffer descriptor: same buffer, same offset, the unaligned data size.    *)
C4_Amended ==
  \A i \in FrameIndices :
    Recorded(i) =>
      /\ DispatchBeforeBarrierBeforePass(command_buffer_[i])
      /\ \A b \in FragBarriers(command_buffer_[i]) :
           /\ command_buffer_[i][b].region = SlotRegion("dispatch", i)
           /\ Bytes(command_buffer_[i][b].region) = Bytes(cube_descriptor_set_[i][3])
           /\ RegionWithin(compute_descriptor_set_[i][1], command_buffer_[i][b].region)
           /\ compute_descriptor_set_[i][1].offset = command_buffer_[i][b].region.offset
           /\ compute_descriptor_set_[i][1].range = 4

C4_Witness ==
  /\ completed.slot = NumSwapchainImages - 1
  /\ Recorded(completed.slot)
  /\ Ran(completed.log, "Dispatch")
  /\ Ran(completed.log, "PipelineBarrier")
  /\ Ran(completed.log, "Draw")

DrawReads(log) == {log[k].read : k \in {j \in Idx(log, "Draw") : log[j].executed}}

AllFlags(log) == {log[k].read.val : k \in FlagReads(log)}

(* C5 as stated: in every frame the dispatch executes and the fragment     *)
(* stage reads the value that this dispatch wrote, whatever the flag.       *)
C5_Original ==
  completed.slot # NoSlot =>
    \E k \in Idx(completed.log, "Dispatch") :
      /\ completed.log[k].executed
      /\ completed.log[k].read.by = "dispatch"
      /\ DrawReads(completed.log) = {completed.log[k].read}

(* C5 amended: in a frame whose flag is non-zero the dispatch executes and *)
(* the fragment stage reads the value that this dispatch wrote; in a frame *)
(* whose flag is zero the dispatch is discarded and the fragment stage     *)
(* reads the 0 that the host wrote for this frame.                          *)
C5_Amended ==
  completed.slot # NoSlot =>
    IF AllFlags(completed.log) # {0}
    THEN \E k \in Idx(completed.log, "Dispatch") :
           /\ completed.log[k].executed
           /\ completed.log[k].read.by = "dispatch"
           /\ DrawReads(completed.log) = {completed.log[k].read}
    ELSE /\ ~Ran(completed.log, "Dispatch")
         /\ DrawReads(completed.log) = {Mem(0, "host")}

C5_Witness ==
  /\ completed.slot = NumSwapchainImages - 1
  /\ AllFlags(completed.log) = {0}
  /\ DrawReads(completed.log) = {Mem(0, "host")}

(* Every buffer region that the frame data of slot i names. *)
References(i) ==
  ({command_buffer_[i][k].region : k \in 1 .. Len(command_buffer_[i])}
     \cup {cube_descriptor_set_[i][k] : k \in 1 .. 3}
     \cup {compute_descriptor_set_[i][1], dispatch_data_buffer_view_[i]})
  \ {NoRegion}

IsRender == pc = "render" /\ pc' = "update"

Submitted == SubSeq(queue', Len(queue) + 1, Len(queue'))

(* C6: the frame data of slot i names the four buffers only inside the     *)
(* region of slot i; a Render for slot j writes and submits updates only   *)
(* for slot j and leaves the regions of every other slot as they are; the  *)
(* contents of a slot's regions change only when the GPU executes work     *)
(* that was submitted for that slot.                                        *)
C6_Theorem ==
  /\ [](\A i \in FrameIndices :
          Recorded(i) =>
            /\ {r.buffer : r \in References(i)} = Buffers
            /\ \A r \in References(i) : RegionWithin(r, SlotRegion(r.buffer, i)))
  /\ [][ /\ IsRender =>
              \E j \in FrameIndices :
                /\ \A k \in 1 .. Len(Submitted) : Submitted[k].slot = j
                /\ \A i \in FrameIndices \ {j} : \A b \in Buffers :
                     /\ staging'[b][get_offset_for_frame(b, i)] =
                          staging[b][get_offset_for_frame(b, i)]
                     /\ device'[b][get_offset_for_frame(b, i)] =
                          device[b][get_offset_for_frame(b, i)]
         /\ \A i \in FrameIndices : \A b \in Buffers :
              device'[b][get_offset_for_frame(b, i)].val #
                device[b][get_offset_for_frame(b, i)].val
              => queue # << >> /\ Front.slot = i ]_vars

C6_Witness ==
  /\ Executing
  /\ gpu.ip > 0
  /\ pc = "update"
  /\ queue[Len(queue)].kind = "cmds"
  /\ queue[Len(queue)].slot # Front.slot
  /\ staging["model"][get_offset_for_frame("model", Front.slot)].val #
       staging["model"][get_offset_for_frame("model", queue[Len(queue)].slot)].val

(* C7: Render submits the command buffer after the buffer updates, so the  *)
(* command buffer runs on the camera, model and condition values that the  *)
(* host held at this Render (those of the last Update), starts on the host *)
(* scratch value, and its draws read that camera and model.                 *)
C7_Theorem ==
  /\ [](Executing =>
          /\ \A b \in {"camera", "model", "conditional"} :
               ReadMem(SlotRegion(b, Front.slot)).val = Front.host[b]
          /\ gpu.ip = 0 =>
               ReadMem(SlotRegion("dispatch", Front.slot)).val = Front.host.dispatch
          /\ \A k \in Idx(gpu.log, "Draw") :
               gpu.log[k].executed =>
                 /\ gpu.log[k].camera = Front.host.camera
                 /\ gpu.log[k].model = Front.host.model)
  /\ [][ IsRender =>
           /\ Submitted # << >>
           /\ Submitted[Len(Submitted)].kind = "cmds"
           /\ Submitted[Len(Submitted)].host = data
           /\ \E k \in 1 .. Len(Submitted) :
                Submitted[k].kind = "copy" /\ Submitted[k].buffer = "dispatch" ]_vars

C7_Witness ==
  /\ Executing
  /\ gpu.ip = 0
  /\ completed.slot = Front.slot
  /\ completed.host.model # Front.host.model

(* C8: when the GPU starts a submitted command buffer, the scratch value   *)
(* of its slot is the 0 written by the host, also after the dispatch of an *)
(* earlier frame wrote another value into the slot; the host value is 0.    *)
C8_Theorem ==
  /\ data.dispatch = 0
  /\ Executing /\ gpu.ip = 0 =>
       ReadMem(SlotRegion("dispatch", Front.slot)) = Mem(0, "host")

C8_Witness ==
  /\ Executing
  /\ gpu.ip = 0
  /\ completed.slot = Front.slot
  /\ \E k \in Idx(completed.log, "Dispatch") :
       completed.log[k].executed /\ completed.log[k].read.val # 0

InBlock(cb, k) ==
  \E b \in Idx(cb, "BeginConditionalRendering") :
    b < k /\ \A e \in Idx(cb, "EndConditionalRendering") : ~(b < e /\ e < k)

InPass(cb, k) ==
  \E b \in Idx(cb, "BeginRenderPass") :
    b < k /\ \A e \in Idx(cb, "EndRenderPass") : ~(b < e /\ e < k)

EnclosingBegins(cb, k) ==
  {b \in Idx(cb, "BeginConditionalRendering") :
     b < k /\ \A e \in Idx(cb, "EndConditionalRendering") : ~(b < e /\ e < k)}

Stages(c) == <<c.srcStage, c.dstStage>>

(* C9: the host-to-compute and the compute-to-fragment barrier are outside *)
(* every conditional block and outside the render pass, and both execute   *)
(* in every frame; the dispatch lies between them inside a non-inverted    *)
(* block and executes exactly when the flag is non-zero.                    *)
C9_Theorem ==
  /\ \A i \in FrameIndices :
       Recorded(i) =>
         LET cb == command_buffer_[i] IN
           /\ Cardinality(Idx(cb, "PipelineBarrier")) = 2
           /\ {Stages(cb[k]) : k \in Idx(cb, "PipelineBarrier")} =
                {<<"HOST", "COMPUTE_SHADER">>, <<"COMPUTE_SHADER", "FRAGMENT_SHADER">>}
           /\ \A k \in Idx(cb, "PipelineBarrier") : ~InBlock(cb, k) /\ ~InPass(cb, k)
           /\ Cardinality(Idx(cb, "Dispatch")) = 1
           /\ \A d \in Idx(cb, "Dispatch") :
                /\ ~InPass(cb, d)
                /\ EnclosingBegins(cb, d) # {}
                /\ \A b \in EnclosingBegins(cb, d) : cb[b].flags = 0
                /\ \E h \in Idx(cb, "PipelineBarrier") :
                     h < d /\ Stages(cb[h]) = <<"HOST", "COMPUTE_SHADER">>
                /\ \A f \in FragBarriers(cb) : d < f
  /\ completed.slot # NoSlot =>
       /\ \A k \in Idx(completed.log, "PipelineBarrier") :
            /\ completed.log[k].executed
            /\ ~completed.log[k].in_cond
            /\ ~completed.log[k].in_pass
       /\ Cardinality(Idx(completed.log, "PipelineBarrier")) = 2
       /\ Ran(completed.log, "Dispatch") <=> AllFlags(completed.log) # {0}

C9_Witness ==
  /\ completed.slot # NoSlot
  /\ AllFlags(completed.log) = {0}
  /\ ~Ran(completed.log, "Dispatch")
  /\ Cardinality({k \in Idx(completed.log, "PipelineBarrier") : completed.log[k].executed}) = 2

(* One pass over a command sequence, tracking the recording state, the     *)
(* open render pass and the open conditional block.                         *)
ScanStart ==
  [ok |-> TRUE, cmd |-> "initial", pass |-> FALSE, passes |-> 0, block |-> FALSE,
   begun_in_pass |-> FALSE, blocks |-> << >>]

ScanStep(st, c) ==
  CASE c.op = "BeginCommandBuffer" ->
         [st EXCEPT !.ok = @ /\ st.cmd = "initial", !.cmd = "recording"]
    [] c.op = "EndCommandBuffer" ->
         [st EXCEPT !.ok = @ /\ st.cmd = "recording" /\ ~st.pass /\ ~st.block,
                    !.cmd = "executable"]
    [] c.op = "BeginRenderPass" ->
         [st EXCEPT !.ok = @ /\ st.cmd = "recording" /\ ~st.pass /\ ~st.block,
                    !.pass = TRUE, !.passes = @ + 1]
    [] c.op = "EndRenderPass" ->
         [st EXCEPT !.ok = @ /\ st.cmd = "recording" /\ st.pass /\ ~st.block,
                    !.pass = FALSE]
    [] c.op = "BeginConditionalRendering" ->
         [st EXCEPT !.ok = @ /\ st.cmd = "recording" /\ ~st.block,
                    !.block = TRUE, !.begun_in_pass = st.pass]
    [] c.op = "EndConditionalRendering" ->
         [st EXCEPT !.ok = @ /\ st.cmd = "recording" /\ st.block
                            /\ st.pass = st.begun_in_pass,
                    !.block = FALSE, !.blocks = Append(@, st.pass)]
    [] OTHER -> [st EXCEPT !.ok = @ /\ st.cmd = "recording"]

RECURSIVE Scan(_, _, _)
Scan(cb, k, st) == IF k > Len(cb) THEN st ELSE Scan(cb, k + 1, ScanStep(st, cb[k]))

(* C10: in every recorded command buffer each conditional block is closed  *)
(* before the next one opens and before the render pass or the command     *)
(* buffer ends; the first block lies outside the render pass, the other    *)
(* two inside the one render pass; the render pass and the command buffer  *)
(* are begun once and ended once.                                           *)
C10_Theorem ==
  \A i \in FrameIndices :
    Recorded(i) =>
      LET end == Scan(command_buffer_[i], 1, ScanStart) IN
        /\ end.ok
        /\ end.cmd = "executable"
        /\ end.passes = 1
        /\ end.blocks = <<FALSE, TRUE, TRUE>>

C10_Witness ==
  /\ pc # "init"
  /\ \A i \in FrameIndices :
       /\ Recorded(i)
       /\ Cardinality(Idx(command_buffer_[i], "BeginConditionalRendering")) = 3
       /\ Cardinality(Idx(command_buffer_[i], "EndConditionalRendering")) = 3

(* The phase of a count of calls in the period of 120; 65536 mod 120 = 16. *)
PhaseOfCalls(k) == (k.top * 16 * 16 + (k.hi % 120) * 16 + k.lo) % 120

(* The phase of the count truncated to 32 bits. *)
PhaseOfCounter(k) == ((k.hi % 120) * 16 + k.lo) % 120

====
